---- MODULE Spec2Model ----
(***************************************************************************)
(* Model of src/index.js: a script that creates an address lookup table    *)
(* on a Solana cluster, extends it with four addresses and compares the    *)
(* serialized size of a transaction compiled with and without the table.   *)
(*                                                                         *)
(* The program is one async call chain (main -> createALTs / addAddress -> *)
(* createAndSendV0Tx, main -> compareTxSize).  Every `await` on a remote   *)
(* call splits the code into two steps: the step that issues the request   *)
(* and the step that runs when the promise settles.  The cluster and the   *)
(* web3.js SDK are the environment: the cluster is modelled by its block   *)
(* height, its lookup tables and the transactions it holds; the SDK by the *)
(* v0 wire format its serializer writes.                                   *)
(***************************************************************************)
EXTENDS Integers, Sequences, FiniteSets, TLC

(***************************************************************************)
(* Bounds of the model.                                                    *)
(***************************************************************************)
MaxHeight == 3
Validity == 1
MaxExtra == 1
MaxNear == 5
MaxAdd == 4

(***************************************************************************)
(* Keys and sizes.  Account addresses are integers: the accounts a table   *)
(* lists are numbered from 1, the payer and the system program have keys   *)
(* above every such number.                                                *)
(***************************************************************************)
payer == 1000
SystemProgramId == 1001
PubkeyBytes == 32
IndexBytes == 1
SignatureBytes == 64
LOOKUP_TABLE_MAX_ADDRESSES == 256
PACKET_DATA_SIZE == 1280 - 40 - 8

Range(s) == {s[i] : i \in DOMAIN s}
Fresh(n) == [i \in 1..n |-> i]

\* main's literal address list (four distinct keys, none of them the payer)
addresses == <<1, 2, 3, 4>>

\* AddressLookupTableProgram.createLookupTable derives the table address from
\* the authority and the recent slot (a program-derived address).
TableAddress(authority, recentSlot) == <<authority, recentSlot>>
TableAddrs == {TableAddress(payer, s) : s \in 0..MaxHeight}

NoTable == [exists |-> FALSE, authority |-> payer, addresses |-> <<>>]
EmptyTable(auth) == [exists |-> TRUE, authority |-> auth, addresses |-> <<>>]

createLookupTable(authority, recentSlot) ==
    [kind |-> "create", table |-> TableAddress(authority, recentSlot),
     authority |-> authority, recentSlot |-> recentSlot, addresses |-> <<>>]

extendLookupTable(authority, lookupTableAddr, addrs) ==
    [kind |-> "extend", table |-> lookupTableAddr,
     authority |-> authority, recentSlot |-> 0, addresses |-> addrs]

(***************************************************************************)
(* The v0 wire format (sizes in bytes).                                    *)
(***************************************************************************)
CompactU16Len(n) == IF n < 128 THEN 1 ELSE IF n < 16384 THEN 2 ELSE 3

\* One SystemProgram.transfer instruction: program index, two account
\* indexes behind their count, twelve data bytes behind their length.
TransferIxSize == 1 + CompactU16Len(2) + 2 * IndexBytes + CompactU16Len(12) + 12

\* The account keys a list of transfers from the payer references.
TransferKeys(tos) ==
    IF tos = <<>> THEN {payer} ELSE {payer, SystemProgramId} \cup Range(tos)

\* DrainedKeys with the table not handed to compileToV0Message.
DrainedKeysNoTable(tos, tbls) == {}

\* compileToV0Message([table]): the keys moved out of the static list are the
\* ones that are neither signer nor invoked and are found in the table.
DrainedKeys(tos, tbls) ==
    (TransferKeys(tos) \ {payer, SystemProgramId})
        \cap UNION {Range(tbls[j].addresses) : j \in DOMAIN tbls}

\* LookupsSize with every looked-up address written as a full key.
LookupsSizeFullKeys(drained) ==
    IF drained = 0 THEN 0
    ELSE PubkeyBytes + CompactU16Len(drained) + drained * PubkeyBytes
         + CompactU16Len(0)

\* One address table lookup per table that drained at least one key: the
\* table's key, the writable indexes and the (empty) readonly indexes, each
\* list behind its length.
LookupsSize(drained) ==
    IF drained = 0 THEN 0
    ELSE PubkeyBytes + CompactU16Len(drained) + drained * IndexBytes
         + CompactU16Len(0)

NumLookups(drained) == IF drained = 0 THEN 0 ELSE 1

\* MessageV0.serialize(): version prefix, header, static keys, blockhash,
\* instructions, address table lookups.
MessageSize(tos, tbls) ==
    LET keys == Cardinality(TransferKeys(tos))
        drained == Cardinality(DrainedKeys(tos, tbls))
    IN  1 + 3
        + CompactU16Len(keys - drained) + (keys - drained) * PubkeyBytes
        + PubkeyBytes
        + CompactU16Len(Len(tos)) + Len(tos) * TransferIxSize
        + CompactU16Len(NumLookups(drained)) + LookupsSize(drained)

\* VersionedTransaction.serialize(): one signature (the payer's), the message.
TxSize(messageSize) == CompactU16Len(1) + SignatureBytes + messageSize

\* sign() serializes the message into a PACKET_DATA_SIZE buffer and throws a
\* RangeError when the message does not fit.
Overruns(size) == size > PACKET_DATA_SIZE

\* The message of a create or extend transaction: four static keys (table,
\* payer, system program, lookup table program), one instruction.
AltIxDataLen(ix) ==
    IF ix.kind = "create" THEN 4 + 8 + 1 ELSE 4 + 8 + Len(ix.addresses) * PubkeyBytes
AltIxAccounts == 4
AltMessageSize(ix) ==
    1 + 3 + CompactU16Len(4) + 4 * PubkeyBytes + PubkeyBytes
    + CompactU16Len(1)
    + (1 + CompactU16Len(AltIxAccounts) + AltIxAccounts * IndexBytes
       + CompactU16Len(AltIxDataLen(ix)) + AltIxDataLen(ix))
    + CompactU16Len(0)

VARIABLES
    harness,            \* the function run at the top level
    pc,                 \* where the async call chain is suspended
    caller,             \* the caller of createAndSendV0Tx
    error,              \* the rejection that reached the top level
    out,                \* the console
    calls,              \* every remote request issued, with its outcome
    inflight,           \* the remote requests not yet settled
    slot,               \* createALTs: slot
    lookupTableAddress, \* the table address held by the running function
    addressesArg,       \* addAddress: addresses
    arrayOfInstructions,\* createAndSendV0Tx: arrayOfInstructions
    latestBlockhash,    \* the blockhash fetched last
    txid,               \* createAndSendV0Tx: txid
    signedTxs,          \* every transaction built and signed
    lookupTable,        \* the value getAddressLookupTable resolved with
    sizes,              \* the two sizes compareTxSize printed
    height,             \* cluster: block height (and slot)
    tables,             \* cluster: the lookup table at each table address
    seen,               \* cluster: the states of each table an RPC node may serve
    pending,            \* cluster: transactions accepted and not processed
    processed           \* cluster: transactions processed, with their result

prog == <<harness, pc, caller, error, out, calls, inflight, slot,
          lookupTableAddress, addressesArg, arrayOfInstructions,
          latestBlockhash, txid, signedTxs, lookupTable, sizes>>
cluster == <<height, tables, seen, pending, processed>>
vars == <<prog, cluster>>

NoBlockhash == [blockhash |-> -1, lastValidBlockHeight |-> -1, fetch |-> 0]
NoIx == [kind |-> "none", table |-> TableAddress(payer, 0), authority |-> payer,
         recentSlot |-> 0, addresses |-> <<>>]
NoSizes == [reported |-> FALSE, without |-> 0, with |-> 0]

NoTx == 0

Msg(m, v) == [msg |-> m, val |-> v]

\* A remote request: the RPC method, the function that awaits it, and the
\* signature / blockhash / lastValidBlockHeight it was given (confirmTransaction).
Call(op, by, sig, bh) ==
    [op |-> op, by |-> by, signature |-> sig, blockhash |-> bh.blockhash,
     lastValidBlockHeight |-> bh.lastValidBlockHeight, outcome |-> "pending",
     result |-> -1]

\* The request the call chain is suspended on.
Awaited == Len(calls)

\* Resume with the await left out: the next request goes out while the
\* previous one is still pending.
ResumeNoAwait(oc, res, new) ==
    /\ calls' = calls \o new
    /\ inflight' = inflight \cup {Len(calls) + k : k \in 1..Len(new)}

\* The awaited promise settles with outcome oc and value res; the code that
\* runs next issues the requests in new (none, or the next awaited call).
Resume(oc, res, new) ==
    /\ calls' = [calls EXCEPT ![Awaited].outcome = oc, ![Awaited].result = res] \o new
    /\ inflight' = (inflight \ {Awaited}) \cup {Len(calls) + k : k \in 1..Len(new)}

\* A call made with nothing awaited (the first call of a function).
Issue(new) ==
    /\ calls' = calls \o new
    /\ inflight' = inflight \cup {Len(calls) + k : k \in 1..Len(new)}

\* No function catches: an exception unwinds every frame, main()'s promise
\* rejects and the process ends.
Throw(reason) ==
    /\ error' = reason
    /\ pc' = "failed"

\* Propagate with a retry loop around the call: the rejected request is
\* issued again and the function stays where it was.
PropagateRetry(reason) ==
    /\ calls' = [calls EXCEPT ![Awaited].outcome = "rejected"]
                    \o <<[calls[Awaited] EXCEPT !.outcome = "pending"]>>
    /\ inflight' = (inflight \ {Awaited}) \cup {Len(calls) + 1}
    /\ UNCHANGED <<harness, pc, caller, error, out, slot, lookupTableAddress,
                   addressesArg, arrayOfInstructions, latestBlockhash, txid,
                   signedTxs, lookupTable, sizes>>

\* A rejected remote call: the await throws.
Propagate(reason) ==
    /\ Resume("rejected", -1, <<>>)
    /\ Throw(reason)
    /\ UNCHANGED <<harness, caller, out, slot, lookupTableAddress, addressesArg,
                   arrayOfInstructions, latestBlockhash, txid, signedTxs,
                   lookupTable, sizes>>

(***************************************************************************)
(* The cluster.                                                            *)
(***************************************************************************)

\* Execute without the capacity check of the extend instruction.
ExecuteNoLimit(ix, tbl) ==
    IF ix.kind = "create"
    THEN [err |-> FALSE,
          table |-> IF tbl.exists THEN tbl ELSE EmptyTable(ix.authority)]
    ELSE IF \/ ~tbl.exists
            \/ tbl.authority # ix.authority
            \/ ix.addresses = <<>>
         THEN [err |-> TRUE, table |-> tbl]
         ELSE [err |-> FALSE,
               table |-> [tbl EXCEPT !.addresses = @ \o ix.addresses]]

\* The lookup table program run on one table: {err, the table afterwards}.
\* A failed instruction changes nothing.
Execute(ix, tbl) ==
    IF ix.kind = "create"
    THEN [err |-> FALSE,
          table |-> IF tbl.exists THEN tbl ELSE EmptyTable(ix.authority)]
    ELSE IF \/ ~tbl.exists
            \/ tbl.authority # ix.authority
            \/ ix.addresses = <<>>
            \/ Len(tbl.addresses) + Len(ix.addresses) > LOOKUP_TABLE_MAX_ADDRESSES
         THEN [err |-> TRUE, table |-> tbl]
         ELSE [err |-> FALSE,
               table |-> [tbl EXCEPT !.addresses = @ \o ix.addresses]]

\* The last block height at which a transaction built on blockhash bh lands.
LastValid(bh) == bh + Validity

Landed(sig) == \E p \in processed : p.sig = sig

\* The {err} confirmTransaction resolves with: 1 when the transaction failed.
ErrOf(sig) == IF (CHOOSE p \in processed : p.sig = sig).err THEN 1 ELSE 0

Tick ==
    /\ height < MaxHeight
    /\ height' = height + 1
    /\ UNCHANGED <<prog, tables, seen, pending, processed>>

\* A leader processes an accepted transaction whose blockhash is still valid.
\* It runs the instruction, or fails it for a reason outside the lookup table
\* program (fault: the fee payer cannot fund the account at that moment).
ProcessTx ==
    \E sig \in pending, fault \in BOOLEAN :
        LET tx == signedTxs[sig]
            a == tx.ix.table
            r == IF fault THEN [err |-> TRUE, table |-> tables[a]]
                 ELSE Execute(tx.ix, tables[a])
        IN  /\ height <= LastValid(tx.recentBlockhash)
            /\ pending' = pending \ {sig}
            /\ processed' = processed \cup {[sig |-> sig, err |-> r.err]}
            /\ tables' = [tables EXCEPT ![a] = r.table]
            /\ seen' = [seen EXCEPT ![a] = @ \cup {r.table}]
            /\ UNCHANGED <<prog, height>>

(***************************************************************************)
(* The program.                                                            *)
(***************************************************************************)

\* The transaction createAndSendV0Tx / compareTxSize builds from the blockhash
\* just fetched: its instructions, the blockhash it carries, the
\* getLatestBlockhash call that blockhash came from.
Tx(by, ix, tos, withTable, bh) ==
    [by |-> by, ix |-> ix, tos |-> tos, withTable |-> withTable,
     recentBlockhash |-> bh.blockhash, fetch |-> bh.fetch]

\* FetchedBlockhash with the first blockhash kept for later transactions.
FetchedBlockhashCached ==
    IF latestBlockhash.fetch # 0 THEN latestBlockhash
    ELSE [blockhash |-> height, lastValidBlockHeight |-> LastValid(height),
          fetch |-> Awaited]

\* connection.getLatestBlockhash('finalized') resolving at the current height;
\* fetch is the number of the request that returned it.
FetchedBlockhash ==
    [blockhash |-> height, lastValidBlockHeight |-> LastValid(height),
     fetch |-> Awaited]

\* createAndSendV0Tx(arrayOfInstructions), up to its first await (line 17).
createAndSendV0Tx(by, ix) ==
    /\ caller' = by
    /\ arrayOfInstructions' = ix
    /\ pc' = "getLatestBlockhash"

\* main, line 164, and createALTs up to its first await (line 51).
Main ==
    /\ pc = "main"
    /\ out' = out \o <<Msg("Step 1: create address lookup table", 0)>>
    /\ Issue(<<Call("getSlot", "createALTs", NoTx, NoBlockhash)>>)
    /\ pc' = "getSlot"
    /\ UNCHANGED <<harness, caller, error, slot, lookupTableAddress, addressesArg,
                   arrayOfInstructions, latestBlockhash, txid, signedTxs,
                   lookupTable, sizes, cluster>>

\* NoNetworkEffect with the table allocated as soon as the instruction is built.
CreatesOnConstruct ==
    /\ tables' = [tables EXCEPT ![TableAddress(payer, height)] = EmptyTable(payer)]
    /\ seen' = [seen EXCEPT ![TableAddress(payer, height)] = @ \cup {EmptyTable(payer)}]
    /\ UNCHANGED <<height, pending, processed>>

\* createLookupTable (lines 54-59) builds an instruction and derives an
\* address; nothing is sent to the cluster.
NoNetworkEffect == UNCHANGED cluster

\* createALTs, lines 51-67: getSlot resolved; derive the table address, build
\* the create instruction, enter createAndSendV0Tx.
GetSlotResolve ==
    /\ pc = "getSlot"
    /\ slot' = height
    /\ lookupTableAddress' = createLookupTable(payer, height).table
    /\ out' = out \o <<Msg("slot:", height), Msg("lookup table address:", height)>>
    /\ createAndSendV0Tx("createALTs", createLookupTable(payer, height))
    /\ Resume("resolved", height,
              <<Call("getLatestBlockhash", "createAndSendV0Tx", NoTx, NoBlockhash)>>)
    /\ NoNetworkEffect
    /\ UNCHANGED <<harness, error, addressesArg, latestBlockhash, txid, signedTxs,
                   lookupTable, sizes>>

GetSlotReject ==
    /\ pc = "getSlot"
    /\ Propagate("getSlot failed")
    /\ UNCHANGED cluster

\* createAndSendV0Tx, lines 17-38: blockhash fetched; compile, sign (which
\* serializes the message and throws when it overruns the packet), send.
GetLatestBlockhashResolve ==
    /\ pc = "getLatestBlockhash"
    /\ latestBlockhash' = FetchedBlockhash
    /\ IF Overruns(AltMessageSize(arrayOfInstructions))
       THEN /\ out' = out \o <<Msg("Fetched latest blockhash", LastValid(height)),
                               Msg("Compiled transaction message", 0)>>
            /\ Resume("resolved", height, <<>>)
            /\ Throw("RangeError")
            /\ UNCHANGED signedTxs
       ELSE /\ out' = out \o <<Msg("Fetched latest blockhash", LastValid(height)),
                               Msg("Compiled transaction message", 0),
                               Msg("Transaction Signed", 0)>>
            /\ signedTxs' = Append(signedTxs,
                   Tx("createAndSendV0Tx", arrayOfInstructions, <<>>, FALSE,
                      FetchedBlockhash))
            /\ Resume("resolved", height,
                      <<Call("sendTransaction", "createAndSendV0Tx",
                             Len(signedTxs) + 1, FetchedBlockhash)>>)
            /\ pc' = "sendTransaction"
            /\ UNCHANGED error
    /\ UNCHANGED <<harness, caller, slot, lookupTableAddress, addressesArg,
                   arrayOfInstructions, txid, lookupTable, sizes, cluster>>

GetLatestBlockhashReject ==
    /\ pc = "getLatestBlockhash"
    /\ Propagate("getLatestBlockhash failed")
    /\ UNCHANGED cluster

\* The RPC node's preflight: the blockhash is known and still valid, and the
\* instruction succeeds on the table state the node holds.
Preflight(tx) ==
    /\ height <= LastValid(tx.recentBlockhash)
    /\ \E view \in seen[tx.ix.table] : ~Execute(tx.ix, view).err

\* createAndSendV0Tx, lines 38-39: the node accepted the transaction and
\* returned its signature; wait for its confirmation.
SendTransactionResolve ==
    /\ pc = "sendTransaction"
    /\ Preflight(signedTxs[Len(signedTxs)])
    /\ txid' = Len(signedTxs)
    /\ pending' = pending \cup {Len(signedTxs)}
    /\ Resume("resolved", Len(signedTxs),
              <<Call("confirmTransaction", "createAndSendV0Tx",
                     Len(signedTxs), latestBlockhash)>>)
    /\ pc' = "confirmTransaction"
    /\ UNCHANGED <<harness, caller, error, out, slot, lookupTableAddress,
                   addressesArg, arrayOfInstructions, latestBlockhash, signedTxs,
                   lookupTable, sizes, height, tables, seen, processed>>

SendTransactionReject ==
    /\ pc = "sendTransaction"
    /\ Propagate("sendTransaction failed")
    /\ UNCHANGED cluster

\* compareTxSize(lookupTableAddress) up to its first await (line 117).
compareTxSize ==
    /\ pc' = "getAddressLookupTable"

\* addAddress(lookupTableAddress, addresses) up to the first await (lines 75-86, 17).
addAddress(tableAddr, addrs) ==
    createAndSendV0Tx("addAddress", extendLookupTable(payer, tableAddr, addrs))

\* confirmTransaction resolved: the cluster processed the transaction.  The
\* value it resolves with ({err}) is not looked at (lines 39-43).  Line 47,
\* then the caller's continuation: createALTs 68-70 and main 171-172, or
\* addAddress 87 and main 189-190 with compareTxSize up to line 117.
ConfirmTransactionResolve ==
    /\ pc = "confirmTransaction"
    /\ Landed(txid)
    /\ IF caller = "createALTs"
       THEN /\ out' = out \o <<Msg("Transaction succesfully confirmed!", txid),
                               Msg("Create lookup table", 0),
                               Msg("Waiting for 1 minute...", 0)>>
            /\ Resume("resolved", ErrOf(txid), <<>>)
            /\ pc' = "timer"
       ELSE IF harness = "main"
       THEN /\ out' = out \o <<Msg("Transaction succesfully confirmed!", txid),
                               Msg("Lookup Table Entries:", 0),
                               Msg("Step 3: check the transaction size", 0)>>
            /\ Resume("resolved", ErrOf(txid),
                      <<Call("getAddressLookupTable", "compareTxSize", NoTx,
                             NoBlockhash)>>)
            /\ compareTxSize
       ELSE /\ out' = out \o <<Msg("Transaction succesfully confirmed!", txid),
                               Msg("Lookup Table Entries:", 0)>>
            /\ Resume("resolved", ErrOf(txid), <<>>)
            /\ pc' = "done"
    /\ UNCHANGED <<harness, caller, error, slot, lookupTableAddress, addressesArg,
                   arrayOfInstructions, latestBlockhash, txid, signedTxs,
                   lookupTable, sizes, cluster>>

\* confirmTransaction rejects: the block height passed lastValidBlockHeight
\* with the transaction not processed, or the connection failed.
ConfirmTransactionReject ==
    /\ pc = "confirmTransaction"
    /\ \/ /\ height > latestBlockhash.lastValidBlockHeight
          /\ ~Landed(txid)
          /\ Propagate("TransactionExpiredBlockheightExceededError")
       \/ Propagate("confirmTransaction failed")
    /\ UNCHANGED cluster

\* main, lines 172-182: the minute is over; addAddress with the four addresses.
Timer ==
    /\ pc = "timer"
    /\ out' = out \o <<Msg("Step 2: add address to lookup table", 0)>>
    /\ addressesArg' = addresses
    /\ addAddress(lookupTableAddress, addresses)
    /\ Issue(<<Call("getLatestBlockhash", "createAndSendV0Tx", NoTx, NoBlockhash)>>)
    /\ UNCHANGED <<harness, error, slot, lookupTableAddress, latestBlockhash, txid,
                   signedTxs, lookupTable, sizes, cluster>>

\* What getAddressLookupTable resolves with: 1 for a table, 0 for null.
Found(view) == IF view.exists THEN 1 ELSE 0

\* NotFound with the null check left out.
NotFoundIgnored(view) == FALSE

\* `if (!lookupTable) return` (line 118): value is null when the node holds no
\* table at the address.
NotFound(view) == ~view.exists

\* compareTxSize, lines 117-135: the table read resolved with a state an RPC
\* node holds.  No table: return; main's promise resolves.  Otherwise build
\* one transfer per table address and fetch a blockhash.
GetAddressLookupTableResolve ==
    /\ pc = "getAddressLookupTable"
    /\ \E view \in seen[lookupTableAddress] :
        /\ lookupTable' = view
        /\ IF NotFound(view)
           THEN /\ Resume("resolved", Found(view), <<>>)
                /\ pc' = "done"
                /\ UNCHANGED out
           ELSE /\ out' = out \o <<Msg("Fetched lookup table:", 0)>>
                /\ Resume("resolved", Found(view),
                          <<Call("getLatestBlockhash", "compareTxSize", NoTx,
                                 NoBlockhash)>>)
                /\ pc' = "compareBlockhash"
    /\ UNCHANGED <<harness, caller, error, slot, lookupTableAddress, addressesArg,
                   arrayOfInstructions, latestBlockhash, txid, signedTxs, sizes,
                   cluster>>

GetAddressLookupTableReject ==
    /\ pc \in {"getAddressLookupTable", "fetchGet"}
    /\ Propagate("getAddressLookupTable failed")
    /\ UNCHANGED cluster

\* The transfers of compareTxSize: one per table address, to that address.
txInstructions(tbl) == tbl.addresses

\* compareTxSize, lines 135-160: blockhash fetched; compile and sign the
\* transaction with the table, then the one without, both on that blockhash;
\* print the two sizes.  Either sign throws when its message overruns.
CompareBlockhashResolve ==
    LET tos == txInstructions(lookupTable)
        txWith == Tx("compareTxSize", NoIx, tos, TRUE, FetchedBlockhash)
        txWithout == Tx("compareTxSize", NoIx, tos, FALSE, FetchedBlockhash)
        fetched == Msg("Fetched latest blockhash", LastValid(height))
        msgWith == MessageSize(tos, <<lookupTable>>)
        msgWithout == MessageSize(tos, <<>>)
    IN  /\ pc = "compareBlockhash"
        /\ latestBlockhash' = FetchedBlockhash
        /\ Resume("resolved", height, <<>>)
        /\ IF Overruns(msgWith)
           THEN /\ out' = out \o <<fetched>>
                /\ Throw("RangeError")
                /\ UNCHANGED <<signedTxs, sizes>>
           ELSE IF Overruns(msgWithout)
           THEN /\ out' = out \o <<fetched>>
                /\ signedTxs' = Append(signedTxs, txWith)
                /\ Throw("RangeError")
                /\ UNCHANGED sizes
           ELSE /\ out' = out \o
                      <<fetched, Msg("Compiled transactions", 0),
                        Msg("Transaction size without address lookup table:",
                            TxSize(msgWithout)),
                        Msg("Transaction size with address lookup table:",
                            TxSize(msgWith))>>
                /\ signedTxs' = signedTxs \o <<txWith, txWithout>>
                /\ sizes' = [reported |-> TRUE, without |-> TxSize(msgWithout),
                             with |-> TxSize(msgWith)]
                /\ pc' = "done"
                /\ UNCHANGED error
        /\ UNCHANGED <<harness, caller, slot, lookupTableAddress, addressesArg,
                       arrayOfInstructions, txid, lookupTable, cluster>>

CompareBlockhashReject ==
    /\ pc = "compareBlockhash"
    /\ Propagate("getLatestBlockhash failed")
    /\ UNCHANGED cluster

\* compareTxSize called at the top level.
CompareTxSizeCall ==
    /\ pc = "compareTxSize"
    /\ Issue(<<Call("getAddressLookupTable", "compareTxSize", NoTx, NoBlockhash)>>)
    /\ compareTxSize
    /\ UNCHANGED <<harness, caller, error, out, slot, lookupTableAddress,
                   addressesArg, arrayOfInstructions, latestBlockhash, txid,
                   signedTxs, lookupTable, sizes, cluster>>

\* addAddress called at the top level.
AddAddressCall ==
    /\ pc = "addAddress"
    /\ addAddress(lookupTableAddress, addressesArg)
    /\ Issue(<<Call("getLatestBlockhash", "createAndSendV0Tx", NoTx, NoBlockhash)>>)
    /\ UNCHANGED <<harness, error, out, slot, lookupTableAddress, addressesArg,
                   latestBlockhash, txid, signedTxs, lookupTable, sizes, cluster>>

\* fetchALTs, lines 96-97: request the table.
FetchALTsCall ==
    /\ pc = "fetchALTs"
    /\ Issue(<<Call("getAddressLookupTable", "fetchALTs", NoTx, NoBlockhash)>>)
    /\ pc' = "fetchGet"
    /\ UNCHANGED <<harness, caller, error, out, slot, lookupTableAddress,
                   addressesArg, arrayOfInstructions, latestBlockhash, txid,
                   signedTxs, lookupTable, sizes, cluster>>

\* fetchALTs, lines 98-112: res.value is the table or null.  It is printed,
\* then its key is read (a TypeError on null), then every address is printed
\* and the table returned.
FetchALTsResolve ==
    /\ pc = "fetchGet"
    /\ \E view \in seen[lookupTableAddress] :
        /\ lookupTable' = view
        /\ Resume("resolved", Found(view), <<>>)
        /\ IF ~view.exists
           THEN /\ out' = out \o <<Msg("lookupTableAccount:", 0)>>
                /\ Throw("TypeError")
           ELSE /\ out' = out \o <<Msg("lookupTableAccount:", 1),
                                   Msg("Table address from cluster:", 0)>>
                          \o [i \in 1..Len(view.addresses) |->
                                 Msg("address", view.addresses[i])]
                /\ pc' = "done"
                /\ UNCHANGED error
    /\ UNCHANGED <<harness, caller, slot, lookupTableAddress, addressesArg,
                   arrayOfInstructions, latestBlockhash, txid, signedTxs, sizes,
                   cluster>>

(***************************************************************************)
(* Specifications.                                                         *)
(***************************************************************************)

InitLocals ==
    /\ caller = "none"
    /\ error = "none"
    /\ out = <<>>
    /\ calls = <<>>
    /\ inflight = {}
    /\ slot = -1
    /\ arrayOfInstructions = NoIx
    /\ latestBlockhash = NoBlockhash
    /\ txid = NoTx
    /\ signedTxs = <<>>
    /\ lookupTable = NoTable
    /\ sizes = NoSizes
    /\ pending = {}
    /\ processed = {}

\* node index.js: main() on a cluster that holds none of the payer's tables.
Init ==
    /\ harness = "main"
    /\ pc = "main"
    /\ lookupTableAddress = TableAddress(payer, 0)
    /\ addressesArg = <<>>
    /\ height = 0
    /\ tables = [a \in TableAddrs |-> NoTable]
    /\ seen = [a \in TableAddrs |-> {NoTable}]
    /\ InitLocals

Next ==
    \/ Main
    \/ GetSlotResolve
    \/ GetSlotReject
    \/ GetLatestBlockhashResolve
    \/ GetLatestBlockhashReject
    \/ SendTransactionResolve
    \/ SendTransactionReject
    \/ ConfirmTransactionResolve
    \/ ConfirmTransactionReject
    \/ Timer
    \/ GetAddressLookupTableResolve
    \/ GetAddressLookupTableReject
    \/ CompareBlockhashResolve
    \/ CompareBlockhashReject
    \/ Tick
    \/ ProcessTx

Spec == Init /\ [][Next]_vars

\* The tables a cluster can hold at the payer's table address: n distinct
\* accounts, then up to MaxExtra entries that repeat one, or name the payer or
\* the system program.
Extras ==
    UNION {[1..k -> {payer, SystemProgramId, 1}] : k \in 0..MaxExtra}
InputTables ==
    {[exists |-> TRUE, authority |-> payer, addresses |-> Fresh(nx[1]) \o nx[2]] :
        nx \in {p \in (0..LOOKUP_TABLE_MAX_ADDRESSES) \X Extras :
                   p[1] + Len(p[2]) <= LOOKUP_TABLE_MAX_ADDRESSES}}

\* A function called on a table address whose table is in any such state, or
\* absent; an RPC node may still serve the state before the table existed.
InitOn(fn, tbls) ==
    /\ harness = fn
    /\ pc = fn
    /\ lookupTableAddress = TableAddress(payer, 0)
    /\ height \in 0..MaxHeight
    /\ \E t \in tbls \cup {NoTable} :
        /\ tables = [a \in TableAddrs |->
                        IF a = TableAddress(payer, 0) THEN t ELSE NoTable]
        /\ \E old \in {{}, {NoTable}} :
            seen = [a \in TableAddrs |->
                       IF a = TableAddress(payer, 0) THEN {t} \cup old
                       ELSE {NoTable}]
    /\ InitLocals

CompareInit == InitOn("compareTxSize", InputTables) /\ addressesArg = <<>>

CompareNext ==
    \/ CompareTxSizeCall
    \/ GetAddressLookupTableResolve
    \/ GetAddressLookupTableReject
    \/ CompareBlockhashResolve
    \/ CompareBlockhashReject

CompareSpec == CompareInit /\ [][CompareNext]_vars

FetchInit == InitOn("fetchALTs", InputTables) /\ addressesArg = <<>>

FetchNext ==
    \/ FetchALTsCall
    \/ FetchALTsResolve
    \/ GetAddressLookupTableReject

FetchSpec == FetchInit /\ [][FetchNext]_vars

\* addAddress called on a table that is absent, empty or within MaxNear
\* entries of full, with up to MaxAdd new addresses.
NearTables ==
    {[exists |-> TRUE, authority |-> payer, addresses |-> Fresh(n)] :
        n \in {0} \cup ((LOOKUP_TABLE_MAX_ADDRESSES - MaxNear)..LOOKUP_TABLE_MAX_ADDRESSES)}
NewAddresses(k) == [i \in 1..k |-> LOOKUP_TABLE_MAX_ADDRESSES + i]

ExtendInit ==
    /\ InitOn("addAddress", NearTables)
    /\ \E k \in 0..MaxAdd : addressesArg = NewAddresses(k)

ExtendNext ==
    \/ AddAddressCall
    \/ GetLatestBlockhashResolve
    \/ GetLatestBlockhashReject
    \/ SendTransactionResolve
    \/ SendTransactionReject
    \/ ConfirmTransactionResolve
    \/ ConfirmTransactionReject
    \/ Tick
    \/ ProcessTx

ExtendSpec == ExtendInit /\ [][ExtendNext]_vars

(***************************************************************************)
(* Properties.                                                             *)
(***************************************************************************)

KindOf(sig) == signedTxs[sig].ix.kind
ConfirmedBefore(i, kind) ==
    \E j \in 1..(i - 1) :
        /\ calls[j].op = "confirmTransaction"
        /\ calls[j].outcome = "resolved"
        /\ KindOf(calls[j].signature) = kind
        /\ \E p \in processed : p.sig = calls[j].signature

\* C1: main is strictly sequential.  At most one remote request is in flight and
\* every earlier request has settled; the extend transaction is sent only after
\* confirmTransaction resolved for the create transaction, which the cluster had
\* processed; the table is read only after the same for the extend transaction.
C1_StrictlySequential ==
    /\ Cardinality(inflight) <= 1
    /\ \A i \in DOMAIN calls : i < Len(calls) => calls[i].outcome # "pending"
    /\ \A i \in DOMAIN calls :
        /\ (calls[i].op = "sendTransaction" /\ KindOf(calls[i].signature) = "extend")
            => ConfirmedBefore(i, "create")
        /\ calls[i].op = "getAddressLookupTable" => ConfirmedBefore(i, "extend")

C1_Witness ==
    \E i \in DOMAIN calls :
        calls[i].op = "getAddressLookupTable" /\ calls[i].outcome = "pending"

Printed(m) == {i \in DOMAIN out : out[i].msg = m}

\* C2: the success line of createAndSendV0Tx is printed only for a transaction
\* that was sent, confirmed against the blockhash and lastValidBlockHeight it was
\* built with, and not failed by the cluster.
C2_SuccessMeansConfirmed ==
    \A i \in Printed("Transaction succesfully confirmed!") :
        /\ \E j \in DOMAIN calls :
            /\ calls[j].op = "confirmTransaction"
            /\ calls[j].outcome = "resolved"
            /\ calls[j].signature = out[i].val
            /\ calls[j].blockhash = signedTxs[out[i].val].recentBlockhash
            /\ calls[j].lastValidBlockHeight = LastValid(signedTxs[out[i].val].recentBlockhash)
        /\ \E p \in processed : p.sig = out[i].val /\ ~p.err

\* Transaction t carries the blockhash a getLatestBlockhash call of the function
\* that built it returned, and no remote request lies between that call and the
\* signing of t: the next request, if any, sends t.
FreshFor(t) ==
    LET f == signedTxs[t].fetch
    IN  /\ f \in DOMAIN calls
        /\ calls[f].op = "getLatestBlockhash"
        /\ calls[f].by = signedTxs[t].by
        /\ calls[f].outcome = "resolved"
        /\ calls[f].result = signedTxs[t].recentBlockhash
        /\ f < Len(calls) =>
            calls[f + 1].op = "sendTransaction" /\ calls[f + 1].signature = t

\* C3 as stated: every signed transaction carries a blockhash fetched for it just
\* before, and no fetched blockhash is carried by two transactions.
C3_BlockhashPerTransaction ==
    \A t \in DOMAIN signedTxs :
        /\ FreshFor(t)
        /\ \A u \in DOMAIN signedTxs : u # t => signedTxs[u].fetch # signedTxs[t].fetch

\* C3 amended: every signed transaction carries a blockhash fetched just before
\* it was built; two transactions share a fetch only when they are the pair
\* compareTxSize builds (with and without the table) on its one blockhash.
C3_BlockhashPerBuild ==
    \A t \in DOMAIN signedTxs :
        /\ FreshFor(t)
        /\ \A u \in DOMAIN signedTxs :
            (u # t /\ signedTxs[u].fetch = signedTxs[t].fetch) =>
                /\ signedTxs[t].by = "compareTxSize"
                /\ signedTxs[u].by = "compareTxSize"
                /\ signedTxs[t].withTable # signedTxs[u].withTable

C3_Witness ==
    /\ Len(signedTxs) = 4
    /\ signedTxs[3].fetch = signedTxs[4].fetch
    /\ signedTxs[1].fetch # signedTxs[2].fetch

RejectedCalls == {i \in DOMAIN calls : calls[i].outcome = "rejected"}

StaysFailed ==
    RejectedCalls # {} =>
        (out' = out /\ calls' = calls /\ signedTxs' = signedTxs /\ pc' = pc)

\* C4: a rejected remote call ends the run.  It is the last request ever issued,
\* the error is at the top level, and from then on nothing is printed, signed or
\* requested.
C4_FailureIsTerminal ==
    /\ [](RejectedCalls # {} =>
            /\ RejectedCalls = {Len(calls)}
            /\ pc = "failed"
            /\ error # "none"
            /\ inflight = {})
    /\ [][StaysFailed]_vars

C4_Witness ==
    /\ RejectedCalls # {}
    /\ caller = "createALTs"
    /\ ~(\E i \in DOMAIN out : out[i].msg = "Step 2: add address to lookup table")

\* C5: fetchALTs on an address that holds no table returns the absent result
\* and does not throw.
C5_AbsentIsReturned ==
    (/\ ~tables[lookupTableAddress].exists
     /\ calls # <<>>
     /\ calls[1].outcome = "resolved")
        => (pc = "done" /\ error = "none" /\ ~lookupTable.exists)

\* The table addresses a comparison transaction can reference through the table.
Referenced == Cardinality(Range(lookupTable.addresses) \ {payer, SystemProgramId})

\* C6 as stated: for every table of 1 to 256 addresses compareTxSize reports a
\* size with the table below the size without it.
C6_AlwaysSmaller ==
    (/\ pc \in {"done", "failed"}
     /\ RejectedCalls = {}
     /\ lookupTable.exists
     /\ Len(lookupTable.addresses) \in 1..LOOKUP_TABLE_MAX_ADDRESSES)
        => (sizes.reported /\ sizes.with < sizes.without)

\* C6 amended: whenever compareTxSize reports the sizes of a table with at
\* least two distinct addresses other than the payer and the system program,
\* the size with the table is the smaller; and it reports them for every
\* table of at most 23 addresses.
C6_SmallerFromTwo ==
    /\ (sizes.reported /\ Referenced >= 2) => sizes.with < sizes.without
    /\ (/\ pc \in {"done", "failed"}
        /\ RejectedCalls = {}
        /\ lookupTable.exists
        /\ Len(lookupTable.addresses) <= 23) => sizes.reported

C6_Witness ==
    /\ sizes.reported
    /\ Referenced = 2
    /\ Len(lookupTable.addresses) = 2
    /\ sizes.without - sizes.with = 28

\* The same table with one more address that no table holds yet.
OneMore(tbl) ==
    [tbl EXCEPT !.addresses = Append(@, LOOKUP_TABLE_MAX_ADDRESSES + 1)]
Saving(tbl) ==
    TxSize(MessageSize(txInstructions(tbl), <<>>))
        - TxSize(MessageSize(txInstructions(tbl), <<tbl>>))

\* C7 as stated: going from n to n + 1 table-referenced addresses, for every
\* n, raises the reported saving by exactly 31 bytes.
C7_ThirtyOneFromZero ==
    (/\ sizes.reported
     /\ ~Overruns(MessageSize(txInstructions(OneMore(lookupTable)), <<>>)))
        => Saving(OneMore(lookupTable)) - (sizes.without - sizes.with) = 31

\* C7 amended: from the first referenced address on, each further one saves
\* exactly 31 bytes.  The reported saving for n >= 1 referenced addresses is
\* 31 * n less the 34 bytes of the lookup entry (table key and two lengths),
\* and the table with one more referenced address, when it still serializes,
\* saves exactly 31 bytes more.
C7_ThirtyOnePerAddress ==
    (sizes.reported /\ Referenced >= 1) =>
        /\ sizes.without - sizes.with = 31 * Referenced - 34
        /\ ~Overruns(MessageSize(txInstructions(OneMore(lookupTable)), <<>>)) =>
            Saving(OneMore(lookupTable)) - (sizes.without - sizes.with) = 31

C7_Witness ==
    /\ sizes.reported
    /\ Referenced = 4
    /\ sizes.without - sizes.with = 90
    /\ sizes.without = 364

Existing == {view \in seen[lookupTableAddress] : view.exists}
CalledOn ==
    CHOOSE view \in Existing :
        \A w \in Existing : Len(view.addresses) <= Len(w.addresses)

\* The address list does not fit the table.
Overflows(view) ==
    view.exists /\ Len(view.addresses) + Len(addressesArg) > LOOKUP_TABLE_MAX_ADDRESSES

NoTableRead ==
    \E i \in DOMAIN calls :
        /\ calls[i].op = "getAddressLookupTable"
        /\ calls[i].outcome = "resolved"
        /\ calls[i].result = 0

CompareLeavesChain ==
    pc \in {"getAddressLookupTable", "compareBlockhash"} =>
        (tables' = tables /\ pending' = pending /\ processed' = processed)

\* C10: when the table read finds no table, compareTxSize returns at once: no
\* blockhash is fetched, nothing is built or printed, no error is raised and
\* main completes.  compareTxSize never sends a transaction, and while it runs
\* the cluster's tables and transactions do not change.
C10_NoTableNoComparison ==
    /\ [](NoTableRead =>
            /\ pc = "done"
            /\ error = "none"
            /\ ~sizes.reported
            /\ calls[Len(calls)].op = "getAddressLookupTable"
            /\ out[Len(out)].msg = "Step 3: check the transaction size"
            /\ \A t \in DOMAIN signedTxs : signedTxs[t].by # "compareTxSize")
    /\ [](/\ \A i \in DOMAIN calls : calls[i].by = "compareTxSize" =>
                calls[i].op \in {"getAddressLookupTable", "getLatestBlockhash"}
          /\ \A sig \in pending \cup {p.sig : p \in processed} :
                signedTxs[sig].by # "compareTxSize")
    /\ [][CompareLeavesChain]_vars

C10_Witness ==
    /\ NoTableRead
    /\ pc = "done"
    /\ tables[lookupTableAddress].exists
    /\ Len(tables[lookupTableAddress].addresses) = 4
====
